---- MODULE Spec2Model ----
(***************************************************************************)
(* A model of the native half of htsjdk.samtools.util.zip.IntelDeflater    *)
(* (src/src/c/inteldeflater/IntelDeflater.c): one deflater object `this`   *)
(* with its Java fields, the native Stream it owns, and the JNI entry      *)
(* points init, setDictionary, deflateBytes, getAdler, getBytesRead,       *)
(* getBytesWritten, reset and end.                                         *)
(*                                                                         *)
(* zlib (deflate...) and igzip (init_stream, fast_lz) are libraries the   *)
(* file links against.  They are modelled by the sets of outcomes their    *)
(* interfaces allow; the JNI code is modelled statement by statement.      *)
(***************************************************************************)
EXTENDS Integers, Sequences, FiniteSets, TLC

(***************************************************************************)
(* Bounds of the model.                                                    *)
(***************************************************************************)
MaxBuf == 1
MaxCap == 1
MaxTotal == 2
MaxFree == 2
MaxDangling == 1

(***************************************************************************)
(* Constants of the program.                                               *)
(***************************************************************************)
FAST_COMPRESSION == 1
IGZIP_TRUE == 1

\* zlib.h flush values, as the jint `flush` is handed unchanged to deflate()
Z_NO_FLUSH == 0
Z_PARTIAL_FLUSH == 1
Z_SYNC_FLUSH == 2
Z_FULL_FLUSH == 3
Z_FINISH == 4

FlushValues == {Z_NO_FLUSH, Z_PARTIAL_FLUSH, Z_SYNC_FLUSH, Z_FULL_FLUSH}

\* levels and strategies a caller may hand to init: 1 is the igzip level,
\* 6 an ordinary zlib level, 10 a level zlib rejects
Levels == {1, 6, 10}
ValidLevels == {1, 6}
Strategies == {0, 1}

VARIABLES
    ndebug,     \* whether the build defines NDEBUG (assert compiled out)
    phase,      \* "new" | "open" | "failed" | "closed" | "crashed"
    this,       \* the Java object's fields read and written through JNI
    strm,       \* the calloc'ed Stream
    freeCount,  \* how many times free() has been applied to the Stream
    danglingCalls, \* native calls made with addr after it was freed
    call,       \* what the last native call did
    sumProduced,\* sum of the values deflateBytes returned since init/reset
    sumAdvanced,\* total by which `off` was advanced since init/reset
    paramsAt    \* when the caller asked an igzip session for new parameters:
                \* "never", only at "zero" bytes read, or "late"

vars == <<ndebug, phase, this, strm, freeCount, danglingCalls, call, sumProduced,
          sumAdvanced, paramsAt>>

(***************************************************************************)
(* The Stream struct (lines 55-59) after calloc: all zero.                 *)
(***************************************************************************)
ZeroLz == [total_in |-> 0, total_out |-> 0, end_of_stream |-> 0, inited |-> FALSE]

ZeroZ == [total_in |-> 0, total_out |-> 0, status |-> "none"]

Stream == [zStream |-> ZeroZ, lz2Stream |-> ZeroLz, useIGZIP |-> 0]

(***************************************************************************)
(* The library calls.  Each operator is the set of outcomes of one call.   *)
(***************************************************************************)

\* igzip init_stream: pure in-memory reset of the LZ_Stream2
init_stream(lz) ==
    [total_in |-> 0, total_out |-> 0, end_of_stream |-> 0, inited |-> TRUE]

\* igzip fast_lz: consumes some of avail_in, fills some of avail_out and
\* advances its totals by as much
fast_lz(lz, avail_in, avail_out) ==
    { [lz        |-> [lz EXCEPT !.total_in = @ + c, !.total_out = @ + p],
       avail_in  |-> avail_in - c,
       avail_out |-> avail_out - p] :
         <<c, p>> \in { cp \in (0..avail_in) \X (0..avail_out) :
                          /\ lz.total_in + cp[1] <= MaxTotal
                          /\ lz.total_out + cp[2] <= MaxTotal } }

\* zlib deflateInit2 with Z_DEFLATED, +-MAX_WBITS, DEF_MEM_LEVEL
deflateInit2(level, strategy) ==
    IF level \in ValidLevels /\ strategy \in Strategies
    THEN {"Z_OK", "Z_MEM_ERROR", "Z_VERSION_ERROR"}
    ELSE {"Z_STREAM_ERROR"}

ZProgress(z, avail_in, avail_out, res, status, cps) ==
    { [res       |-> res,
       z         |-> [z EXCEPT !.total_in = @ + cp[1], !.total_out = @ + cp[2],
                               !.status = status],
       avail_in  |-> avail_in - cp[1],
       avail_out |-> avail_out - cp[2]] :
         cp \in { x \in cps : /\ z.total_in + x[1] <= MaxTotal
                              /\ z.total_out + x[2] <= MaxTotal } }

ZNoProgress(z, avail_in, avail_out, res) ==
    { [res |-> res, z |-> z, avail_in |-> avail_in, avail_out |-> avail_out] }

\* zlib deflate: Z_STREAM_ERROR on a stream with no state or one already
\* finished and not asked to finish; Z_BUF_ERROR when no progress is possible;
\* Z_STREAM_END only under Z_FINISH once all input is consumed
deflate(z, avail_in, avail_out, flush) ==
    IF z.status = "none" \/ (z.status = "finish" /\ flush # Z_FINISH)
    THEN ZNoProgress(z, avail_in, avail_out, "Z_STREAM_ERROR")
    ELSE IF avail_out = 0 \/ (z.status = "finish" /\ avail_in # 0)
    THEN ZNoProgress(z, avail_in, avail_out, "Z_BUF_ERROR")
    ELSE IF z.status = "finish"
    THEN ZNoProgress(z, avail_in, avail_out, "Z_STREAM_END")
    ELSE ZProgress(z, avail_in, avail_out, "Z_OK", "busy",
                   (0..avail_in) \X (0..avail_out))
         \cup (IF flush = Z_FINISH
               THEN ZProgress(z, avail_in, avail_out, "Z_STREAM_END", "finish",
                              {avail_in} \X (1..avail_out))
               ELSE {})
         \cup (IF avail_in = 0 /\ flush # Z_FINISH
               THEN ZNoProgress(z, avail_in, avail_out, "Z_BUF_ERROR")
               ELSE {})

\* zlib deflateParams: on a stream that has compressed nothing since init or
\* reset the parameters are just replaced.  Otherwise what is staged is
\* compressed with the old parameters first (a deflate with Z_BLOCK, which a
\* finished stream refuses): Z_OK when that completed, Z_BUF_ERROR when the
\* output space ran out before it did, with the totals, avail_in and
\* avail_out advanced by what was consumed and produced until then
deflateParams(z, avail_in, avail_out, level, strategy) ==
    IF z.status = "none" \/ level \notin ValidLevels \/ strategy \notin Strategies
    THEN ZNoProgress(z, avail_in, avail_out, "Z_STREAM_ERROR")
    ELSE IF z.status = "init"
    THEN ZNoProgress(z, avail_in, avail_out, "Z_OK")
    ELSE IF z.status = "finish"
    THEN ZNoProgress(z, avail_in, avail_out, "Z_STREAM_ERROR")
         \cup ZNoProgress(z, avail_in, avail_out, "Z_OK")
    ELSE ZProgress(z, avail_in, avail_out, "Z_OK", z.status,
                   (0..avail_in) \X (0..avail_out))
         \cup ZProgress(z, avail_in, avail_out, "Z_BUF_ERROR", z.status,
                        (IF avail_out = 0 THEN {0} ELSE 0..avail_in) \X {avail_out})

\* zlib deflateReset
deflateReset(z) ==
    IF z.status = "none"
    THEN [res |-> "Z_STREAM_ERROR", z |-> z]
    ELSE [res |-> "Z_OK",
          z   |-> [z EXCEPT !.total_in = 0, !.total_out = 0, !.status = "init"]]

\* zlib deflateEnd: Z_DATA_ERROR when the stream is ended with data pending
deflateEnd(z) ==
    IF z.status = "none" THEN [res |-> "Z_STREAM_ERROR", z |-> z]
    ELSE [res |-> IF z.status = "busy" THEN "Z_DATA_ERROR" ELSE "Z_OK",
          z   |-> [z EXCEPT !.status = "none"]]

\* zlib deflateSetDictionary: Z_STREAM_ERROR without a state; Z_OK on a
\* fresh stream; after the first deflate a wrapped stream refuses, and a raw
\* one (nowrap) accepts whenever it holds no lookahead, which is zlib's own
\* business: either outcome
deflateSetDictionary(z) ==
    IF z.status = "none" THEN {"Z_STREAM_ERROR"}
    ELSE IF z.status = "init" THEN {"Z_OK"}
    ELSE IF z.status = "busy" THEN {"Z_OK", "Z_STREAM_ERROR"}
    ELSE {"Z_STREAM_ERROR"}

(***************************************************************************)
(* Java_..._IntelDeflater_deflateBytes, lines 207-348.                     *)
(* t is the object `this`, s the Stream behind addr, len the capacity of   *)
(* the output array b, flush the jint flush; pinIn and pinOut say whether  *)
(* GetPrimitiveArrayCritical succeeds for this_buf and for b.  The value   *)
(* is the set of results the call can have: the fields and Stream it       *)
(* leaves, the jint it returns, the exception it leaves pending, the       *)
(* branch it took, the backend's return code, the pin/release/backend      *)
(* events in order, and whether an assert aborted the process.             *)
(***************************************************************************)
StepResult(t, s, ret, exc, path, res, trace, abort) ==
    [this |-> t, strm |-> s, ret |-> ret, exc |-> exc, path |-> path,
     res |-> res, trace |-> trace, abort |-> abort]

\* lines 220-221: the igzip guard.  The function then runs off its end
\* without a return statement, so the jint it yields is indeterminate.
igzipUnsupported(t, s, flush) ==
    s.useIGZIP # 0 /\ ((t.setParams /\ s.lz2Stream.total_in # 0) \/ flush = 1)

rejectPath(t, s, len) ==
    { StepResult(t, s, r, "InternalError", "reject", "none", <<>>, FALSE) :
        r \in 0..len }

\* a failed output pin that forgets the input buffer it holds
pinFailure_leak(t, s, len, pinIn, pinOut, path) ==
    IF ~pinIn
    THEN { StepResult(t, s, 0, IF t.len # 0 THEN "OutOfMemoryError" ELSE "none",
                      path, "none", <<"pin_in_failed">>, FALSE) }
    ELSE IF ~pinOut
    THEN { StepResult(t, s, 0, IF len # 0 THEN "OutOfMemoryError" ELSE "none",
                      path, "none", <<"pin_in", "pin_out_failed">>, FALSE) }
    ELSE {}

\* lines 223-238 (and the same statements at 269-282 and 308-321): a failed
\* pin returns 0, with OutOfMemoryError only when that buffer's length is
\* not zero; the input buffer is released when the output pin fails
pinFailure(t, s, len, pinIn, pinOut, path) ==
    IF ~pinIn
    THEN { StepResult(t, s, 0, IF t.len # 0 THEN "OutOfMemoryError" ELSE "none",
                      path, "none", <<"pin_in_failed">>, FALSE) }
    ELSE IF ~pinOut
    THEN { StepResult(t, s, 0, IF len # 0 THEN "OutOfMemoryError" ELSE "none",
                      path, "none",
                      <<"pin_in", "pin_out_failed", "release_in">>, FALSE) }
    ELSE {}

Pinned == <<"pin_in", "pin_out">>

\* releases in the order of the pins
Released_inFirst == <<"release_in", "release_out">>

Released == <<"release_out", "release_in">>

\* an igzip branch that advances off and forgets to store len
igzipPath_keepsLen(t, s, len, pinIn, pinOut) ==
    IF ~(pinIn /\ pinOut) THEN pinFailure(t, s, len, pinIn, pinOut, "igzip")
    ELSE IF ~ndebug /\ (t.len = 0 \/ len = 0)
    THEN { StepResult(t, s, 0, "AssertionFailed", "igzip", "none",
                      Pinned \o <<"abort">>, TRUE) }
    ELSE LET lz == [s.lz2Stream EXCEPT
                      !.end_of_stream = IF t.finish THEN 1 ELSE 0]
         IN { StepResult(
                [t EXCEPT !.finished = IF t.finish THEN TRUE ELSE @,
                          !.off = @ + (t.len - o.avail_in)],
                [s EXCEPT !.lz2Stream = o.lz],
                len - o.avail_out, "none", "igzip", "none",
                Pinned \o <<"fast_lz">> \o Released, FALSE) :
              o \in fast_lz(lz, t.len, len) }

\* lines 222-261: the igzip branch
igzipPath(t, s, len, pinIn, pinOut) ==
    IF ~(pinIn /\ pinOut) THEN pinFailure(t, s, len, pinIn, pinOut, "igzip")
    ELSE IF ~ndebug /\ (t.len = 0 \/ len = 0)
    THEN \* assert(avail_in != 0); assert(avail_out != 0): abort()
         { StepResult(t, s, 0, "AssertionFailed", "igzip", "none",
                      Pinned \o <<"abort">>, TRUE) }
    ELSE LET lz == [s.lz2Stream EXCEPT
                      !.end_of_stream = IF t.finish THEN 1 ELSE 0]
         IN { StepResult(
                [t EXCEPT !.finished = IF t.finish THEN TRUE ELSE @,
                          !.off = @ + (t.len - o.avail_in),
                          !.len = o.avail_in],
                [s EXCEPT !.lz2Stream = o.lz],
                len - o.avail_out, "none", "igzip", "none",
                Pinned \o <<"fast_lz">> \o Released, FALSE) :
              o \in fast_lz(lz, t.len, len) }

\* lines 292-305: what the deflateParams return code does
paramsResult(t, s, len, o) ==
    LET s2 == [s EXCEPT !.zStream = o.z]
        tr == Pinned \o <<"deflateParams">> \o Released
    IN CASE o.res = "Z_OK" ->
              StepResult([t EXCEPT !.setParams = FALSE,
                                   !.off = @ + (t.len - o.avail_in),
                                   !.len = o.avail_in],
                         s2, len - o.avail_out, "none", "params", o.res, tr, FALSE)
         [] o.res = "Z_BUF_ERROR" ->
              StepResult([t EXCEPT !.setParams = FALSE],
                         s2, 0, "none", "params", o.res, tr, FALSE)
         [] OTHER ->
              StepResult(t, s2, 0, "InternalError", "params", o.res, tr, FALSE)

\* lines 265-305: the zlib branch with setParams set
paramsPath(t, s, len, pinIn, pinOut) ==
    IF ~(pinIn /\ pinOut) THEN pinFailure(t, s, len, pinIn, pinOut, "params")
    ELSE { paramsResult(t, s, len, o) :
             o \in deflateParams(s.zStream, t.len, len, t.level, t.strategy) }

\* a Z_BUF_ERROR case that takes finished back
deflateResult_unfinish(t, s, len, o) ==
    LET s2 == [s EXCEPT !.zStream = o.z]
        tr == Pinned \o <<"deflate">> \o Released
    IN CASE o.res \in {"Z_STREAM_END", "Z_OK"} ->
              StepResult([t EXCEPT !.finished = IF o.res = "Z_STREAM_END"
                                                THEN TRUE ELSE @,
                                   !.off = @ + (t.len - o.avail_in),
                                   !.len = o.avail_in],
                         s2, len - o.avail_out, "none", "deflate", o.res, tr, FALSE)
         [] o.res = "Z_BUF_ERROR" ->
              StepResult([t EXCEPT !.finished = FALSE],
                         s2, 0, "none", "deflate", o.res, tr, FALSE)
         [] OTHER ->
              StepResult(t, s2, 0, "InternalError", "deflate", o.res, tr, FALSE)

\* lines 331-345: what the deflate return code does
deflateResult(t, s, len, o) ==
    LET s2 == [s EXCEPT !.zStream = o.z]
        tr == Pinned \o <<"deflate">> \o Released
    IN CASE o.res \in {"Z_STREAM_END", "Z_OK"} ->
              StepResult([t EXCEPT !.finished = IF o.res = "Z_STREAM_END"
                                                THEN TRUE ELSE @,
                                   !.off = @ + (t.len - o.avail_in),
                                   !.len = o.avail_in],
                         s2, len - o.avail_out, "none", "deflate", o.res, tr, FALSE)
         [] o.res = "Z_BUF_ERROR" ->
              StepResult(t, s2, 0, "none", "deflate", o.res, tr, FALSE)
         [] OTHER ->
              StepResult(t, s2, 0, "InternalError", "deflate", o.res, tr, FALSE)

\* lines 306-346: the zlib branch without setParams
deflatePath(t, s, len, flush, pinIn, pinOut) ==
    IF ~(pinIn /\ pinOut) THEN pinFailure(t, s, len, pinIn, pinOut, "deflate")
    ELSE { deflateResult(t, s, len, o) :
             o \in deflate(s.zStream, t.len, len,
                           IF t.finish THEN Z_FINISH ELSE flush) }

\* lines 220-347: the dispatch
deflateBytes(t, s, len, flush, pinIn, pinOut) ==
    IF igzipUnsupported(t, s, flush) THEN rejectPath(t, s, len)
    ELSE IF s.useIGZIP # 0 THEN igzipPath(t, s, len, pinIn, pinOut)
    ELSE IF t.setParams THEN paramsPath(t, s, len, pinIn, pinOut)
    ELSE deflatePath(t, s, len, flush, pinIn, pinOut)

(***************************************************************************)
(* Java_..._IntelDeflater_init, lines 138-182.  callocOK says whether      *)
(* calloc returned memory, sse42 what is_sse42_supported() answers.  The   *)
(* igzip branch stores to strm->useIGZIP before it tests strm: with strm   *)
(* null that store is undefined, and the build either traps on it or goes  *)
(* on to the test and throws.                                              *)
(***************************************************************************)
\* a selection that forgets the probe
selectIgzip_noProbe(level, sse42) ==
    level = FAST_COMPRESSION

\* line 143: igzip is taken for level FAST_COMPRESSION on an SSE4.2 machine
selectIgzip(level, sse42) ==
    level = FAST_COMPRESSION /\ sse42

InitResult(ph, s, exc, branch, res, trace) ==
    [phase |-> ph, strm |-> s, exc |-> exc, branch |-> branch, res |-> res,
     trace |-> trace]

init(level, strategy, nowrap, callocOK, sse42) ==
    IF selectIgzip(level, sse42)
    THEN IF ~callocOK
         THEN { InitResult("crashed", Stream, "SIGSEGV", "igzip", "none",
                           <<"calloc_failed", "store_null">>),
                InitResult("failed", Stream, "OutOfMemoryError", "igzip", "none",
                           <<"calloc_failed", "store_null">>) }
         ELSE { InitResult("open",
                           [Stream EXCEPT !.useIGZIP = IGZIP_TRUE,
                                          !.lz2Stream = init_stream(@)],
                           "none", "igzip", "none", <<"calloc", "init_stream">>) }
    ELSE IF ~callocOK
         THEN { InitResult("failed", Stream, "OutOfMemoryError", "zlib", "none",
                           <<"calloc_failed">>) }
         ELSE { CASE r = "Z_OK" ->
                       InitResult("open",
                                  [Stream EXCEPT !.zStream.status = "init"],
                                  "none", "zlib", r, <<"calloc", "deflateInit2">>)
                  [] r = "Z_MEM_ERROR" ->
                       InitResult("failed", Stream, "OutOfMemoryError", "zlib", r,
                                  <<"calloc", "deflateInit2", "free">>)
                  [] r = "Z_STREAM_ERROR" ->
                       InitResult("failed", Stream, "IllegalArgumentException", "zlib",
                                  r, <<"calloc", "deflateInit2", "free">>)
                  [] OTHER ->
                       InitResult("failed", Stream, "InternalError", "zlib", r,
                                  <<"calloc", "deflateInit2", "free">>)
                : r \in deflateInit2(level, strategy) }

\* lines 184-205: setDictionary; a failed pin returns without a word
setDictionary(s, pin) ==
    IF ~pin THEN { [res |-> "none", exc |-> "none"] }
    ELSE { [res |-> r,
            exc |-> CASE r = "Z_OK" -> "none"
                      [] r = "Z_STREAM_ERROR" -> "IllegalArgumentException"
                      [] OTHER -> "InternalError"] :
           r \in deflateSetDictionary(s.zStream) }

\* lines 359-363
getBytesRead(s) ==
    IF s.useIGZIP # 0 THEN s.lz2Stream.total_in ELSE s.zStream.total_in

\* lines 365-369
getBytesWritten(s) ==
    IF s.useIGZIP # 0 THEN s.lz2Stream.total_out ELSE s.zStream.total_out

\* lines 350-357: igzip has no checksum; the checksum's value is zlib's own
\* and is not modelled
getAdler(s) ==
    IF s.useIGZIP # 0 THEN "InternalError" ELSE "none"

\* a reset that leaves the backend's totals as they were
reset_stale(s) ==
    [strm |-> s, exc |-> "none",
     trace |-> IF s.useIGZIP # 0 THEN <<"init_stream">> ELSE <<"deflateReset">>]

\* lines 371-381
reset(s) ==
    IF s.useIGZIP # 0
    THEN [strm |-> [s EXCEPT !.lz2Stream = init_stream(@)], exc |-> "none",
          trace |-> <<"init_stream">>]
    ELSE LET r == deflateReset(s.zStream)
         IN [strm |-> [s EXCEPT !.zStream = r.z],
             exc  |-> IF r.res # "Z_OK" THEN "InternalError" ELSE "none",
             trace |-> <<"deflateReset">>]

\* lines 383-392: deflateEnd for zlib, then free() in either case
end(s) ==
    IF s.useIGZIP = 0
    THEN LET r == deflateEnd(s.zStream)
         IN [strm |-> [s EXCEPT !.zStream = r.z],
             exc  |-> IF r.res = "Z_STREAM_ERROR" THEN "InternalError" ELSE "none",
             trace |-> <<"deflateEnd", "free">>]
    ELSE [strm |-> s, exc |-> "none", trace |-> <<"free">>]

(***************************************************************************)
(* The Java object.  Its fields are declared by initIDs (lines 125-136);   *)
(* the Java methods that set them are the callers of this file.            *)
(***************************************************************************)
NewFields(level, strategy) ==
    [level |-> level, strategy |-> strategy, setParams |-> FALSE,
     finish |-> FALSE, finished |-> FALSE, off |-> 0, len |-> 0]

\* the caller's reset: the fields return to their fresh values
resetFields(t) ==
    [t EXCEPT !.finish = FALSE, !.finished = FALSE, !.off = 0, !.len = 0]

\* the record of one native call: its arguments, what it returned or threw,
\* the branch it took, the backend's return code and the pin/backend events
Call(op, len, flush, pin, ret, exc, path, res, trace) ==
    [op |-> op, len |-> len, flush |-> flush, pin |-> pin,
     ret |-> ret, exc |-> exc, path |-> path, res |-> res, trace |-> trace,
     pre |-> [this |-> this, strm |-> strm],
     sse42 |-> FALSE,
     dangling |-> (phase = "closed")]

SimpleCall(op, ret, exc, res) ==
    Call(op, 0, 0, "ok", ret, exc, "none", res, <<>>)

NoCall ==
    [op |-> "none", len |-> 0, flush |-> 0, pin |-> "ok",
     ret |-> 0, exc |-> "none", path |-> "none", res |-> "none", trace |-> <<>>,
     pre |-> [this |-> NewFields(0, 0), strm |-> Stream],
     sse42 |-> FALSE,
     dangling |-> FALSE]

\* addr is usable by the caller once init returned it; after end it dangles
HasHandle ==
    /\ call.op = "none"
    /\ \/ phase = "open"
       \/ phase = "closed" /\ danglingCalls < MaxDangling

\* the caller is not inside a native call and addr is live
Open == call.op = "none" /\ phase = "open"

Dangle == IF phase = "closed" THEN danglingCalls + 1 ELSE danglingCalls

(***************************************************************************)
(* The state machine.                                                      *)
(***************************************************************************)

\* the Java object is constructed with a level and a strategy; init has
\* not run yet
Init ==
    /\ ndebug \in BOOLEAN
    /\ phase = "new"
    /\ this \in { NewFields(l, st) : l \in Levels, st \in Strategies }
    /\ strm = Stream
    /\ freeCount = 0
    /\ danglingCalls = 0
    /\ call = NoCall
    /\ sumProduced = 0
    /\ sumAdvanced = 0
    /\ paramsAt = "never"

Create ==
    /\ phase = "new"
    /\ call.op = "none"
    /\ \E nowrap \in BOOLEAN, callocOK \in BOOLEAN, sse42 \in BOOLEAN :
         \E r \in init(this.level, this.strategy, nowrap, callocOK, sse42) :
            /\ phase' = r.phase
            /\ strm' = r.strm
            /\ call' = [Call("init", 0, 0, IF callocOK THEN "ok" ELSE "calloc_failed",
                             IF r.phase = "open" THEN 1 ELSE 0,
                             r.exc, r.branch, r.res, r.trace)
                          EXCEPT !.sse42 = sse42]
    /\ UNCHANGED <<ndebug, this, freeCount, danglingCalls, sumProduced, sumAdvanced, paramsAt>>

\* the caller hands over a slice of its input buffer
SetInput ==
    /\ Open
    /\ \E o \in 0..MaxBuf : \E l \in 0..(MaxBuf - o) :
         this' = [this EXCEPT !.off = o, !.len = l]
    /\ UNCHANGED <<ndebug, phase, strm, freeCount, danglingCalls, call, sumProduced, sumAdvanced, paramsAt>>

\* the caller asks for the stream to be finished
Finish ==
    /\ Open
    /\ ~this.finish
    /\ this' = [this EXCEPT !.finish = TRUE]
    /\ UNCHANGED <<ndebug, phase, strm, freeCount, danglingCalls, call, sumProduced, sumAdvanced, paramsAt>>

\* the caller asks for a new level or strategy
SetParams ==
    /\ Open
    /\ \E l \in ValidLevels, st \in Strategies :
         this' = [this EXCEPT !.level = l, !.strategy = st, !.setParams = TRUE]
    /\ paramsAt' = IF strm.useIGZIP = 0 THEN paramsAt
                   ELSE IF getBytesRead(strm) # 0 THEN "late"
                   ELSE IF paramsAt = "never" THEN "zero" ELSE paramsAt
    /\ UNCHANGED <<ndebug, phase, strm, freeCount, danglingCalls, call, sumProduced, sumAdvanced>>

SetDictionary ==
    /\ HasHandle
    /\ \E pin \in BOOLEAN : \E r \in setDictionary(strm, pin) :
         call' = Call("setDictionary", 0, 0, IF pin THEN "ok" ELSE "in_failed",
                      0, r.exc, "none", r.res,
                      IF pin THEN <<"pin_in", "deflateSetDictionary", "release_in">>
                             ELSE <<"pin_in_failed">>)
    /\ danglingCalls' = Dangle
    /\ UNCHANGED <<ndebug, phase, this, strm, freeCount, sumProduced, sumAdvanced, paramsAt>>

DeflateBytes ==
    /\ HasHandle
    /\ \E len \in 0..MaxCap, flush \in FlushValues, pin \in {"ok", "in_failed", "out_failed"} :
         \E r \in deflateBytes(this, strm, len, flush, pin # "in_failed", pin = "ok") :
            /\ this' = r.this
            /\ strm' = r.strm
            /\ phase' = IF r.abort THEN "crashed" ELSE phase
            /\ call' = Call("deflateBytes", len, flush, pin,
                            r.ret, r.exc, r.path, r.res, r.trace)
            /\ sumProduced' = sumProduced + (IF r.exc = "none" THEN r.ret ELSE 0)
            /\ sumAdvanced' = sumAdvanced + (r.this.off - this.off)
    /\ danglingCalls' = Dangle
    /\ UNCHANGED <<ndebug, freeCount, paramsAt>>

GetAdler ==
    /\ HasHandle
    /\ call' = SimpleCall("getAdler", 0, getAdler(strm), "none")
    /\ danglingCalls' = Dangle
    /\ UNCHANGED <<ndebug, phase, this, strm, freeCount, sumProduced, sumAdvanced, paramsAt>>

GetBytesRead ==
    /\ HasHandle
    /\ call' = SimpleCall("getBytesRead", getBytesRead(strm), "none", "none")
    /\ danglingCalls' = Dangle
    /\ UNCHANGED <<ndebug, phase, this, strm, freeCount, sumProduced, sumAdvanced, paramsAt>>

GetBytesWritten ==
    /\ HasHandle
    /\ call' = SimpleCall("getBytesWritten", getBytesWritten(strm), "none", "none")
    /\ danglingCalls' = Dangle
    /\ UNCHANGED <<ndebug, phase, this, strm, freeCount, sumProduced, sumAdvanced, paramsAt>>

Reset ==
    /\ HasHandle
    /\ LET r == reset(strm)
       IN /\ strm' = r.strm
          /\ call' = Call("reset", 0, 0, "ok", 0, r.exc, "none", "none", r.trace)
          /\ IF r.exc = "none"
             THEN /\ this' = resetFields(this)
                  /\ sumProduced' = 0
                  /\ sumAdvanced' = 0
             ELSE UNCHANGED <<this, sumProduced, sumAdvanced>>
    /\ danglingCalls' = Dangle
    /\ UNCHANGED <<ndebug, phase, freeCount, paramsAt>>

End ==
    /\ HasHandle
    /\ freeCount < MaxFree
    /\ LET r == end(strm)
       IN /\ strm' = r.strm
          /\ call' = Call("end", 0, 0, "ok", 0, r.exc, "none", "none", r.trace)
    /\ freeCount' = freeCount + 1
    /\ danglingCalls' = Dangle
    /\ phase' = "closed"
    /\ UNCHANGED <<ndebug, this, sumProduced, sumAdvanced, paramsAt>>

\* a call through the dangling addr may as well trap
DanglingCrash ==
    /\ HasHandle
    /\ phase = "closed"
    /\ phase' = "crashed"
    /\ call' = SimpleCall("trap", 0, "SIGSEGV", "none")
    /\ UNCHANGED <<ndebug, this, strm, freeCount, danglingCalls, sumProduced, sumAdvanced, paramsAt>>

\* the native call returns to the caller, which takes its result
Return ==
    /\ call.op # "none"
    /\ phase # "crashed"
    /\ call' = NoCall
    /\ UNCHANGED <<ndebug, phase, this, strm, freeCount, danglingCalls, sumProduced, sumAdvanced, paramsAt>>

Next ==
    \/ Create
    \/ Return
    \/ SetInput
    \/ Finish
    \/ SetParams
    \/ SetDictionary
    \/ DeflateBytes
    \/ GetAdler
    \/ GetBytesRead
    \/ GetBytesWritten
    \/ Reset
    \/ End
    \/ DanglingCrash

Spec == Init /\ [][Next]_vars

(***************************************************************************)
(* Properties.  `call` holds the native call that has just returned, with  *)
(* the fields and Stream it found (call.pre); `this` and `strm` are what   *)
(* it left.                                                                *)
(***************************************************************************)
Step == call.op = "deflateBytes" /\ ~call.dangling

OnIgzip == call.pre.strm.useIGZIP # 0

BackendEvents == {"fast_lz", "deflate", "deflateParams"}

Events(tr) == { tr[i] : i \in 1..Len(tr) }

SessionUntouched ==
    /\ getBytesRead(strm) = getBytesRead(call.pre.strm)
    /\ getBytesWritten(strm) = getBytesWritten(call.pre.strm)
    /\ this.off = call.pre.this.off
    /\ this.len = call.pre.this.len
    /\ this.finished = call.pre.this.finished

\* C1: init takes the igzip branch, and the session it returns uses igzip
\* (only the LZ_Stream2 initialised), if and only if level is
\* FAST_COMPRESSION and the SSE4.2 probe answers true; in every other case
\* it takes the zlib branch (only the z_stream initialised).
C1_SelectsFastIff ==
    call.op = "init" =>
        LET fast == call.pre.this.level = FAST_COMPRESSION /\ call.sse42
        IN /\ call.path = (IF fast THEN "igzip" ELSE "zlib")
           /\ phase = "open" =>
                /\ (strm.useIGZIP # 0) <=> fast
                /\ strm.lz2Stream.inited <=> fast
                /\ (strm.zStream.status = "init") <=> ~fast

C1_Witness ==
    /\ call.op = "init"
    /\ phase = "open"
    /\ call.pre.this.level = FAST_COMPRESSION
    /\ call.sse42
    /\ strm.useIGZIP = IGZIP_TRUE

\* C2: on an igzip session a step asking for a flush (Z_SYNC_FLUSH or
\* Z_FULL_FLUSH), or made with setParams set after bytes were read, throws
\* InternalError, makes no backend call and leaves the totals, off, len and
\* finished as they were.
C2_FastRejectsFlushAndLateParams ==
    /\ Step
    /\ OnIgzip
    /\ \/ call.flush \in {Z_SYNC_FLUSH, Z_FULL_FLUSH}
       \/ call.pre.this.setParams /\ getBytesRead(call.pre.strm) # 0
    => /\ call.exc = "InternalError"
       /\ Events(call.trace) \cap BackendEvents = {}
       /\ SessionUntouched

\* C3: on a zlib session with setParams set, a step whose deflateParams
\* returns Z_BUF_ERROR returns 0 and leaves setParams set; setParams is
\* cleared only by a step whose deflateParams returned Z_OK.
C3_BufErrorKeepsParamsPending ==
    Step /\ ~OnIgzip /\ call.pre.this.setParams =>
        /\ call.res = "Z_BUF_ERROR" => call.ret = 0 /\ this.setParams
        /\ ~this.setParams => call.res = "Z_OK"

\* C4: on an igzip session whose caller asked for new parameters only while
\* no byte had been read, every step without flush has a result the same
\* step has on the session that differs only in never having been asked:
\* same return value, exception, off, len, finished and totals.
C4_EarlyParamsIsNoOp ==
    Step /\ OnIgzip /\ paramsAt = "zero" /\ call.flush = Z_NO_FLUSH =>
        \E r \in deflateBytes([call.pre.this EXCEPT !.setParams = FALSE],
                              call.pre.strm, call.len, call.flush,
                              call.pin # "in_failed", call.pin = "ok") :
            /\ r.exc = call.exc
            /\ r.exc = "none" => r.ret = call.ret
            /\ r.this.off = this.off
            /\ r.this.len = this.len
            /\ r.this.finished = this.finished
            /\ r.strm = strm

\* C5: in every state of a live session, setParams is set only if the
\* session uses zlib.
C5_ParamsPendingOnlyStandard ==
    phase = "open" /\ this.setParams => strm.useIGZIP = 0

\* C6: a plain step (no flush, no parameter change pending) with no input
\* and no output room returns 0, throws nothing, fails no assertion and
\* leaves the totals, off, len and finished as they were, with igzip as
\* with zlib.
C6_ZeroLengthStepIsNoOp ==
    /\ Step
    /\ call.pre.this.len = 0
    /\ call.len = 0
    /\ call.flush = Z_NO_FLUSH
    /\ ~call.pre.this.setParams
    => /\ call.ret = 0
       /\ call.exc = "none"
       /\ phase # "crashed"
       /\ SessionUntouched

\* C7: on a live session the bytes-written total equals the sum of the
\* values the steps returned since init or the last reset, and the
\* bytes-read total equals the amount by which off was advanced.
C7_TotalsMatchReturns ==
    phase = "open" =>
        /\ getBytesWritten(strm) = sumProduced
        /\ getBytesRead(strm) = sumAdvanced

\* C8: every native call made after end fails with a closed-session error
\* and neither reads nor writes the freed Stream.
C8_ClosedIsTerminal ==
    call.op # "none" /\ call.dangling =>
        /\ call.exc = "ClosedSession"
        /\ call.trace = <<>>
        /\ strm = call.pre.strm

\* C9: over any sequence of calls the Stream is freed at most once.
C9_ReleasedOnce ==
    freeCount <= 1

\* C10: in a step that attempts the pins and has one fail, on the igzip,
\* the deflateParams and the deflate branch alike, no backend call is made,
\* an input buffer already pinned is released, 0 is returned, and
\* OutOfMemoryError is thrown exactly when the length of the buffer whose
\* pin failed is not zero.
C10_PinFailure ==
    call.op = "deflateBytes" /\ call.path # "reject" /\ call.pin # "ok" =>
        LET failedLen == IF call.pin = "in_failed" THEN call.pre.this.len
                         ELSE call.len
            tr == call.trace
        IN /\ Events(tr) \cap BackendEvents = {}
           /\ \A i \in 1..Len(tr) : tr[i] = "pin_in" =>
                 \E j \in (i+1)..Len(tr) : tr[j] = "release_in"
           /\ "pin_out" \notin Events(tr)
           /\ call.ret = 0
           /\ call.exc = (IF failedLen # 0 THEN "OutOfMemoryError" ELSE "none")
           /\ this = call.pre.this
           /\ strm = call.pre.strm

C10_Witness ==
    /\ call.op = "deflateBytes"
    /\ call.path = "params"
    /\ call.pin = "out_failed"
    /\ call.len # 0
    /\ call.exc = "OutOfMemoryError"
    /\ call.trace = <<"pin_in", "pin_out_failed", "release_in">>

ZlibEvents ==
    {"deflate", "deflateParams", "deflateSetDictionary", "deflateReset", "deflateEnd"}

IgzipEvents == {"fast_lz", "init_stream"}

\* C11: over every call on a live session useIGZIP keeps the value init gave
\* it, the other backend's state stays as calloc left it, and the call
\* hands the Stream to functions of the session's own backend only.
C11_BackendFixed ==
    call.op \notin {"none", "init", "trap"} /\ ~call.dangling =>
        /\ strm.useIGZIP = call.pre.strm.useIGZIP
        /\ OnIgzip => /\ strm.zStream = ZeroZ
                      /\ Events(call.trace) \cap ZlibEvents = {}
        /\ ~OnIgzip => /\ strm.lz2Stream = ZeroLz
                       /\ Events(call.trace) \cap IgzipEvents = {}

\* C12: no step of the system other than a reset takes finished from true
\* to false: the native calls only ever store JNI_TRUE into it.
C12_FinishedMonotone ==
    [][(this.finished /\ call'.op # "reset") => this'.finished]_vars

C12_Witness ==
    /\ Step
    /\ call.pre.this.finished
    /\ this.finished
    /\ call.res = "Z_BUF_ERROR"

\* C13: a reset of a live session, with igzip as with zlib, succeeds and
\* leaves the bytes-read and bytes-written totals at 0 and finished false.
C13_ResetIsFresh ==
    call.op = "reset" /\ ~call.dangling =>
        /\ call.exc = "none"
        /\ getBytesRead(strm) = 0
        /\ getBytesWritten(strm) = 0
        /\ ~this.finished

C13_Witness ==
    /\ call.op = "reset"
    /\ ~call.dangling
    /\ ~OnIgzip
    /\ call.pre.this.finished
    /\ getBytesRead(call.pre.strm) # 0
    /\ getBytesWritten(call.pre.strm) # 0
    /\ getBytesWritten(strm) = 0

\* C14: init either returns a live handle and throws nothing, or returns 0
\* with an exception pending and the Stream it allocated freed again:
\* IllegalArgumentException when deflateInit2 answers Z_STREAM_ERROR,
\* OutOfMemoryError when calloc fails or deflateInit2 answers Z_MEM_ERROR,
\* on the igzip branch as on the zlib branch, and never by storing through
\* the null pointer a failed calloc returned.
C14_CreateAllOrNothing ==
    call.op = "init" =>
        /\ phase \in {"open", "failed"}
        /\ phase = "open" => call.exc = "none" /\ call.ret = 1
        /\ phase = "failed" =>
              /\ call.ret = 0
              /\ call.exc # "none"
              /\ "calloc" \in Events(call.trace) => "free" \in Events(call.trace)
        /\ call.res = "Z_STREAM_ERROR" => call.exc = "IllegalArgumentException"
        /\ call.res = "Z_MEM_ERROR" => call.exc = "OutOfMemoryError"
        /\ call.pin = "calloc_failed" => call.exc = "OutOfMemoryError"
        /\ "store_null" \notin Events(call.trace)

\* C15: setDictionary is accepted only on a zlib session that has made no
\* step; on an igzip session, or once a step has consumed or produced
\* bytes, it ends with an exception; and in no case does it change
\* useIGZIP, the totals or finished.
C15_DictionaryOnlyFreshStandard ==
    call.op = "setDictionary" /\ ~call.dangling =>
        LET stepped == \/ getBytesRead(call.pre.strm) # 0
                       \/ getBytesWritten(call.pre.strm) # 0
        IN /\ (OnIgzip \/ stepped) => call.exc # "none"
           /\ call.res = "Z_OK" => ~OnIgzip /\ ~stepped
           /\ strm.useIGZIP = call.pre.strm.useIGZIP
           /\ SessionUntouched

\* the step moved something: it returned bytes or advanced off
MadeProgress == call.ret > 0 \/ this.off > call.pre.this.off

\* C16: in the loop of finish steps that re-supply the unconsumed input with
\* fresh output room, each step making progress, finished is not set while
\* input remains: a finish step that leaves finished true has left len 0.
C16_FinishedOnlyWhenDrained ==
    /\ Step
    /\ call.pre.this.finish
    /\ call.flush = Z_NO_FLUSH
    /\ ~call.pre.this.setParams
    /\ call.exc = "none"
    /\ MadeProgress
    /\ this.finished
    => this.len = 0

\* what can count as the backend reporting the end of the stream: deflate
\* returning Z_STREAM_END; fast_lz returns nothing, so at the most a call
\* made with end_of_stream set that consumed all the input and wrote output
BackendReportedEnd ==
    IF OnIgzip
    THEN /\ "fast_lz" \in Events(call.trace)
         /\ strm.lz2Stream.end_of_stream = 1
         /\ this.len = 0
         /\ call.ret > 0
    ELSE call.res = "Z_STREAM_END"

\* C17: a step takes finished from false to true only if the backend
\* reported the end of the stream in that step; a finish step whose output
\* room was too small for that leaves finished false.
C17_FinishedOnlyOnStreamEnd ==
    Step /\ ~call.pre.this.finished /\ this.finished => BackendReportedEnd

Positions(tr, e) == { i \in 1..Len(tr) : tr[i] = e }

\* C18: in every step the input buffer is pinned before the output buffer,
\* the output buffer is released before the input buffer, a backend call
\* comes after both pins and before any release, and a step that returns
\* has released every buffer it pinned, each pinned at most once.
C18_PinDiscipline ==
    Step =>
        LET tr == call.trace
            pinIn  == Positions(tr, "pin_in")
            pinOut == Positions(tr, "pin_out")
            relIn  == Positions(tr, "release_in")
            relOut == Positions(tr, "release_out")
            calls  == { i \in 1..Len(tr) : tr[i] \in BackendEvents }
        IN /\ \A o \in pinOut : \E i \in pinIn : i < o
           /\ \A o \in relOut : \A i \in relIn : o < i
           /\ \A o \in relOut : \E q \in pinOut : q < o
           /\ \A i \in relIn : \E q \in pinIn : q < i
           /\ \A c \in calls :
                 /\ \E i \in pinIn : i < c
                 /\ \E o \in pinOut : o < c
                 /\ \A r \in relIn \cup relOut : c < r
           /\ Cardinality(pinIn) <= 1 /\ Cardinality(pinOut) <= 1
           /\ phase # "crashed" =>
                 /\ Cardinality(relIn) = Cardinality(pinIn)
                 /\ Cardinality(relOut) = Cardinality(pinOut)

C18_Witness ==
    /\ Step
    /\ call.path = "params"
    /\ call.exc = "InternalError"
    /\ call.trace = <<"pin_in", "pin_out", "deflateParams",
                      "release_out", "release_in">>

\* the step took one of the branches that store off and len
StepSucceeded ==
    /\ call.exc = "none"
    /\ \/ "fast_lz" \in Events(call.trace)
       \/ call.res \in {"Z_OK", "Z_STREAM_END"}

\* C19: every step leaves off + len as it was.  A successful step advances
\* off by the bytes the backend consumed in it and takes as much from len,
\* which stays at or above 0; every other step (Z_BUF_ERROR, a backend
\* fault, a failed pin, the igzip rejection) leaves off and len alone.
C19_OffsetPlusLength ==
    Step =>
        /\ this.off + this.len = call.pre.this.off + call.pre.this.len
        /\ this.len >= 0
        /\ StepSucceeded =>
              this.off - call.pre.this.off
                  = getBytesRead(strm) - getBytesRead(call.pre.strm)
        /\ ~StepSucceeded =>
              /\ this.off = call.pre.this.off
              /\ this.len = call.pre.this.len

C19_Witness ==
    /\ Step
    /\ StepSucceeded
    /\ OnIgzip
    /\ this.off = call.pre.this.off + 1
    /\ this.len = call.pre.this.len - 1

====
